---- MODULE Spec2Model ----
(***************************************************************************)
(* CustomConsole (packages/jest-util/src/Console.js): leveled logging,     *)
(* indentation groups, labelled counters and the table renderer.           *)
(*                                                                         *)
(* Text is a sequence of one-character strings.  Every method is one       *)
(* action; what a call did is left in `sink` (the calls made on the        *)
(* primary stream, in order) and `raised` (the error it propagated to its  *)
(* caller, if any).  The console object outlives a call that raised.       *)
(***************************************************************************)
EXTENDS Integers, Sequences, FiniteSets, TLC

VARIABLES
    groupLevel,     \* this._groupLevel
    counts,         \* this._counts: the own properties of the counts object
    outWidth,       \* this._outWidth
    formatBuffer,   \* this._formatBuffer: which formatter was constructed in
    sink,           \* calls the last method call made on the stream and on
                    \* the formatter, in order
    raised,         \* error the last method call propagated ("none" if none)
    lastOp,         \* the last method call: its name and arguments
    pre,            \* groupLevel and counts as they were before the last call
    nGroup,         \* history: number of group()/groupCollapsed() calls so far
    nGroupEnd,      \* history: number of groupEnd() calls so far
    unmatched,      \* history: group() calls not yet closed by a groupEnd()
    nCount          \* history: number of count(L) calls so far, per label

vars == <<groupLevel, counts, outWidth, formatBuffer, sink, raised, lastOp,
          pre, nGroup, nGroupEnd, unmatched, nCount>>

---------------------------------------------------------------------------
(* Bounds of the model *)

\* group()/groupCollapsed() and groupEnd() are each called at most this often
MaxGroupCalls == 2
\* count() is called at most this often
MaxCount == 2

---------------------------------------------------------------------------
(* Text *)

RECURSIVE repeat(_, _)
\* String.prototype.repeat for a count >= 0 (a negative count is a RangeError,
\* see repeatThrows)
repeat(str, n) == IF n <= 0 THEN <<>> ELSE str \o repeat(str, n - 1)

\* String.prototype.repeat throws RangeError on a negative count
repeatThrows(n) == n < 0

\* String.prototype.substring(0, end): a negative end is taken as 0
substring(str, end) ==
    IF end <= 0 THEN <<>>
    ELSE IF end >= Len(str) THEN str
    ELSE SubSeq(str, 1, end)

Digit(d) == <<"0", "1", "2", "3", "4", "5", "6", "7", "8", "9">>[d + 1]

RECURSIVE NumberToString(_)
\* decimal text of a non-negative integer
NumberToString(n) ==
    IF n < 10 THEN <<Digit(n)>>
    ELSE NumberToString(n \div 10) \o <<Digit(n % 10)>>

RECURSIVE join(_, _)
join(strs, sep) ==
    IF Len(strs) = 0 THEN <<>>
    ELSE IF Len(strs) = 1 THEN strs[1]
    ELSE strs[1] \o sep \o join(Tail(strs), sep)

\* util.format applied to string arguments that hold no format specifier:
\* the arguments joined by single spaces
format(args) == join(args, <<" ">>)

---------------------------------------------------------------------------
(* JavaScript values passed to the console *)

JSUndefined == [t |-> "undefined"]
JSNull == [t |-> "null"]
JSBoolean(b) == [t |-> "boolean", b |-> b]
JSNumber(n) == [t |-> "number", n |-> n]
JSNaN == [t |-> "NaN"]
JSString(s) == [t |-> "string", s |-> s]
\* a function object, such as the ones every object inherits ({}.constructor)
JSFunction == [t |-> "function"]
\* an array: its elements in index order
JSArray(e) == [t |-> "array", e |-> e]
\* a plain object: its own enumerable <<key, value>> pairs in enumeration order
JSObject(e) == [t |-> "object", e |-> e]

\* ToBoolean
Truthy(v) ==
    CASE v.t = "undefined" -> FALSE
      [] v.t = "null" -> FALSE
      [] v.t = "NaN" -> FALSE
      [] v.t = "boolean" -> v.b
      [] v.t = "number" -> v.n # 0
      [] v.t = "string" -> v.s # <<>>
      [] OTHER -> TRUE

\* the typeof operator
typeof(v) ==
    CASE v.t \in {"array", "object", "null"} -> "object"
      [] v.t = "NaN" -> "number"
      [] OTHER -> v.t

---------------------------------------------------------------------------
(* Leveled logging *)

\* what a method call did: the calls it made on the stream and on the
\* formatter, and the error it raised
Outcome(s, r) == [sink |-> s, raised |-> r]
Nothing == Outcome(<<>>, "none")

\* clearLine(this._stdout)
ClearLine == [ev |-> "clearLine"]
\* super.log(text): one line written to the stream; indent and message are
\* kept beside the text they were concatenated into
Write(type, indent, message, formatted) ==
    [ev |-> "write", type |-> type, indent |-> indent, message |-> message,
     text |-> indent \o formatted]

\* this._formatBuffer(type, message) is called
FormatCall(type, message) ==
    [ev |-> "format", type |-> type, message |-> message]

\* the formatter a caller may hand to the constructor: the one of the test
\* harness, which tags a message with the letter of its level
TypeChar(type) ==
    CASE type = "error" -> "E"
      [] type = "info" -> "I"
      [] type = "log" -> "L"
      [] type = "warn" -> "W"
Formatters == {"default", "typeChar"}

\* this._formatBuffer(type, message)
_formatBuffer(type, message) ==
    IF formatBuffer = "default" THEN message
    ELSE <<TypeChar(type), ":", " ">> \o message

\* the indentation marker of one level
Marker == <<">", " ">>

_generateIndentation(level) == repeat(Marker, level)

\* _log at group level `level`: the line is cleared first, the indentation is
\* built next (RangeError below level 0), then the formatter runs and the line
\* is written
_log(level, type, message) ==
    IF repeatThrows(level)
    THEN Outcome(<<ClearLine>>, "RangeError")
    ELSE Outcome(<<ClearLine,
                   FormatCall(type, message),
                   Write(type, _generateIndentation(level), message,
                         _formatBuffer(type, message))>>,
                 "none")

log(level, args) == _log(level, "log", format(args))
info(level, args) == _log(level, "info", format(args))

\* mutant: a warn() that goes through log
warnAsLog(level, args) == log(level, args)

warn(level, args) == _log(level, "warn", format(args))
error(level, args) == _log(level, "error", format(args))
\* mutant: an exception() that goes through log
exceptionAsLog(level, args) == log(level, args)

exception(level, args) == error(level, args)

assert(level, assertion, args) ==
    IF ~Truthy(assertion) THEN log(level, args) ELSE Nothing

---------------------------------------------------------------------------
(* Groups *)

\* group(label) at `level`: the level is incremented first, a truthy label is
\* then logged at the new level
group(level, label) ==
    [level |-> level + 1,
     out |-> IF Truthy(label) THEN log(level + 1, <<label.s>>) ELSE Nothing]

\* groupCollapsed takes no parameter: it calls this.group() without a label
groupCollapsed(level, label) == group(level, JSUndefined)

\* mutant: a groupEnd() that stops at level 0
groupEndClamped(level) == IF level > 0 THEN level - 1 ELSE level

groupEnd(level) == level - 1

---------------------------------------------------------------------------
(* Counters *)

NoLabel == <<"<", "n", "o", " ", "l", "a", "b", "e", "l", ">">>
LabelA == <<"a">>
LabelConstructor == <<"c", "o", "n", "s", "t", "r", "u", "c", "t", "o", "r">>

\* keys every plain object inherits from Object.prototype
ObjectPrototypeKeys == {LabelConstructor}

CountKeys == {NoLabel, LabelA, LabelConstructor}

Absent == [t |-> "absent"]

\* this._counts[key]: the own property, else the inherited one, else undefined
GetCount(c, key) ==
    IF c[key] # Absent THEN c[key]
    ELSE IF key \in ObjectPrototypeKeys THEN JSFunction
    ELSE JSUndefined

\* the ++ operator: ToNumber of a function or of NaN is NaN
Increment(v) == IF v.t = "number" THEN JSNumber(v.n + 1) ELSE JSNaN

\* template-literal text of a counter value
CountToString(v) ==
    IF v.t = "number" THEN NumberToString(v.n) ELSE <<"N", "a", "N">>

\* the label count() works with: the default applies to a missing argument
CountLabel(label) == IF label = JSUndefined THEN NoLabel ELSE label.s

\* mutant: a count() that always works with the default label
countDefaultLabel(level, c, label) ==
    LET key == NoLabel
        c0 == IF ~Truthy(GetCount(c, key))
              THEN [c EXCEPT ![key] = JSNumber(0)] ELSE c
        c1 == [c0 EXCEPT ![key] = Increment(GetCount(c0, key))]
    IN [counts |-> c1,
        out |-> _log(level, "log",
                     key \o <<":", " ">> \o CountToString(GetCount(c1, key)))]

\* count(label) at `level` with counters c: the counter is updated before the
\* line is logged
count(level, c, label) ==
    LET key == CountLabel(label)
        c0 == IF ~Truthy(GetCount(c, key))
              THEN [c EXCEPT ![key] = JSNumber(0)] ELSE c
        c1 == [c0 EXCEPT ![key] = Increment(GetCount(c0, key))]
    IN [counts |-> c1,
        out |-> _log(level, "log",
                     key \o <<":", " ">> \o CountToString(GetCount(c1, key)))]

---------------------------------------------------------------------------
(* Table *)

\* the value of -Infinity among lengths: below every length
NegInfinity == -1

MathMax(a, b) == IF a >= b THEN a ELSE b

\* pad: right pad a string to the width, or truncate it if it is too long
pad(str, width) ==
    IF Len(str) > width THEN substring(str, width)
    ELSE str \o repeat(<<" ">>, width - Len(str))

RECURSIVE max(_, _)
\* max(arr, evaluator), started from maxEval; evaluated holds evaluator(el)
\* for each el of arr, in order
max(evaluated, maxEval) ==
    IF Len(evaluated) = 0 THEN maxEval
    ELSE max(Tail(evaluated), MathMax(maxEval, Head(evaluated)))

RECURSIVE Escape(_)
\* the body of a JSON string literal: quote, backslash and line break escaped
Escape(str) ==
    IF Len(str) = 0 THEN <<>>
    ELSE (CASE Head(str) = "\"" -> <<"\\", "\"">>
            [] Head(str) = "\\" -> <<"\\", "\\">>
            [] Head(str) = "\n" -> <<"\\", "n">>
            [] OTHER -> <<Head(str)>>) \o Escape(Tail(str))

\* JSON.stringify(value) is undefined (no text) for these values
JSONUndefined(v) == v.t \in {"undefined", "function"}

RECURSIVE JSONStringify(_)
\* JSON.stringify(value) without indentation, for a value it has a text for
JSONStringify(v) ==
    CASE v.t = "number" -> NumberToString(v.n)
      [] v.t = "string" -> <<"\"">> \o Escape(v.s) \o <<"\"">>
      [] v.t = "boolean" -> IF v.b THEN <<"t", "r", "u", "e">>
                            ELSE <<"f", "a", "l", "s", "e">>
      [] v.t = "array" ->
           <<"[">>
           \o join([i \in 1..Len(v.e) |->
                       IF JSONUndefined(v.e[i]) THEN <<"n", "u", "l", "l">>
                       ELSE JSONStringify(v.e[i])], <<",">>)
           \o <<"]">>
      [] v.t = "object" ->
           LET own == SelectSeq(v.e, LAMBDA kv : ~JSONUndefined(kv[2]))
           IN <<"{">>
              \o join([i \in 1..Len(own) |->
                          <<"\"">> \o Escape(own[i][1]) \o <<"\"", ":">>
                          \o JSONStringify(own[i][2])], <<",">>)
              \o <<"}">>
      [] OTHER -> <<"n", "u", "l", "l">>

\* stringify throws TypeError when JSON.stringify returns undefined
stringifyThrows(value) == JSONUndefined(value)

\* stringify: JSON.stringify(value).replace(/\n/g, '')
stringify(value) == SelectSeq(JSONStringify(value), LAMBDA ch : ch # "\n")

\* Object.keys(data) throws TypeError for null and undefined
ObjectKeysThrows(data) == data.t \in {"null", "undefined"}

\* Object.keys(data)
ObjectKeys(data) ==
    IF data.t = "array" THEN [i \in 1..Len(data.e) |-> NumberToString(i - 1)]
    ELSE [i \in 1..Len(data.e) |-> data.e[i][1]]

\* Object.values(data)
ObjectValues(data) ==
    IF data.t = "array" THEN data.e
    ELSE [i \in 1..Len(data.e) |-> data.e[i][2]]

IndexHeader == <<"(", "i", "n", "d", "e", "x", ")">>
ValueHeader == <<"V", "a", "l", "u", "e">>

\* mutant: the key measured as stringify(key), quotes included
KeyWidthStringified(data) ==
    MathMax(max([i \in 1..Len(ObjectKeys(data)) |->
                     Len(stringify(JSString(ObjectKeys(data)[i])))],
                NegInfinity),
            Len(IndexHeader))

\* keyWidth before the table is made to fit
KeyWidth(data) ==
    MathMax(max([i \in 1..Len(ObjectKeys(data)) |->
                     Len(ObjectKeys(data)[i])], NegInfinity),
            Len(IndexHeader))

\* valueWidth before the table is made to fit
ValueWidth(data) ==
    MathMax(max([i \in 1..Len(ObjectValues(data)) |->
                     Len(stringify(ObjectValues(data)[i]))], NegInfinity),
            Len(ValueHeader))

TotalTableWidth(keyWidth, valueWidth) == keyWidth + valueWidth + 7

\* one turn of the loop that makes the table fit
Shrink(w) ==
    IF w.value > w.key THEN [w EXCEPT !.value = w.value - 1]
    ELSE [w EXCEPT !.key = w.key - 1]

RECURSIVE FitOffByOne(_, _)
\* mutant: a loop that stops one column too early
FitOffByOne(w, width) ==
    IF TotalTableWidth(w.key, w.value) > width + 1
    THEN FitOffByOne(Shrink(w), width)
    ELSE w

RECURSIVE Fit(_, _)
\* the loop that makes the table fit in the width of the window
Fit(w, width) ==
    IF TotalTableWidth(w.key, w.value) > width THEN Fit(Shrink(w), width)
    ELSE w

RECURSIVE FitTrace(_, _)
\* the widths the loop goes through: those it starts with, then those after
\* each turn
FitTrace(w, width) ==
    IF TotalTableWidth(w.key, w.value) > width
    THEN <<w>> \o FitTrace(Shrink(w), width)
    ELSE <<w>>

\* a line table() is about to log; building it may throw first
Line(msg) == [throws |-> FALSE, msg |-> msg]
Throws == [throws |-> TRUE, msg |-> <<>>]

TopBorder(w) ==
    LET total == TotalTableWidth(w.key, w.value)
    IN IF repeatThrows(total) THEN Throws ELSE Line(repeat(<<"_">>, total))

HeaderRow(w) ==
    Line(<<"|", " ">> \o pad(IndexHeader, w.key) \o <<" ", "|", " ">>
         \o pad(ValueHeader, w.value) \o <<" ", "|">>)

SeparatorRow(w) ==
    IF repeatThrows(w.key + 2) \/ repeatThrows(w.value + 2) THEN Throws
    ELSE Line(<<"|">> \o repeat(<<"-">>, w.key + 2) \o <<"|">>
              \o repeat(<<"-">>, w.value + 2) \o <<"|">>)

DataRow(w, key, value) ==
    Line(<<"|", " ">> \o pad(key, w.key) \o <<" ", "|", " ">>
         \o pad(stringify(value), w.value) \o <<" ", "|">>)

\* the overline character is written OVERLINE
BottomBorder(w) ==
    LET total == TotalTableWidth(w.key, w.value)
    IN IF repeatThrows(total) THEN Throws
       ELSE Line(repeat(<<"OVERLINE">>, total))

\* the lines table() logs, in order
TableLines(data, width) ==
    LET w == Fit([key |-> KeyWidth(data), value |-> ValueWidth(data)], width)
        keys == ObjectKeys(data)
        values == ObjectValues(data)
    IN <<TopBorder(w), HeaderRow(w), SeparatorRow(w)>>
       \o [i \in 1..Len(keys) |-> DataRow(w, keys[i], values[i])]
       \o <<BottomBorder(w)>>

RECURSIVE LogLines(_, _, _)
\* this.log(line) for each line in turn, until one raises
LogLines(level, lines, done) ==
    IF Len(lines) = 0 THEN Outcome(done, "none")
    ELSE IF Head(lines).throws THEN Outcome(done, "RangeError")
    ELSE LET o == log(level, <<Head(lines).msg>>)
         IN IF o.raised # "none" THEN Outcome(done \o o.sink, o.raised)
            ELSE LogLines(level, Tail(lines), done \o o.sink)

\* mutant: the guard without its test for a falsy value, which lets null in
NotATableTypeofOnly(data) == typeof(data) # "object"

\* the guard of table(): nothing is done for data that is not an object
NotATable(data) == ~Truthy(data) \/ typeof(data) # "object"

table(level, width, data) ==
    IF NotATable(data) THEN Nothing
    ELSE IF ObjectKeysThrows(data) THEN Outcome(<<>>, "TypeError")
    ELSE IF \E i \in 1..Len(ObjectValues(data)) :
                stringifyThrows(ObjectValues(data)[i])
    THEN Outcome(<<>>, "TypeError")
    ELSE LogLines(level, TableLines(data, width), <<>>)

---------------------------------------------------------------------------
(* Inputs of the calls *)

\* the width used when the stream is not a terminal
DefaultOutWidth == 80

\* widths a console is constructed with: the default, and the column counts of
\* a narrow and of a one-column terminal
OutWidths == {DefaultOutWidth, 15, 1}

\* argument lists of the logging methods: strings without format specifiers
ArgLists == {<<>>, <<<<"x">>, <<"y", "z">>>>}

Assertions == {JSBoolean(TRUE), JSNumber(0)}

\* no label, the empty label, a label
GroupLabels == {JSUndefined, JSString(<<>>), JSString(<<"g">>)}

CountLabels == {JSUndefined, JSString(LabelA), JSString(LabelConstructor)}

TableData ==
    { JSUndefined, JSNull, JSString(<<"h", "i">>), JSNumber(3),
      JSArray(<<>>), JSObject(<<>>),
      JSArray(<<JSObject(<< <<<<"a">>, JSNumber(1)>> >>), JSNumber(4)>>),
      JSObject(<< <<<<"a">>, JSString(<<"l", "\n", "2">>)>>,
                  <<<<"l", "o", "n", "g", "e", "r", "K", "e", "y">>,
                    JSNumber(2)>> >>),
      JSArray(<<JSNumber(1), JSUndefined>>) }

---------------------------------------------------------------------------
(* The console *)

\* the constructor
Init ==
    /\ groupLevel = 0
    /\ counts = [k \in CountKeys |-> Absent]
    /\ outWidth \in OutWidths
    /\ formatBuffer \in Formatters
    /\ sink = <<>>
    /\ raised = "none"
    /\ lastOp = [name |-> "constructor", args |-> <<>>]
    /\ pre = [groupLevel |-> 0, counts |-> [k \in CountKeys |-> Absent]]
    /\ nGroup = 0
    /\ nGroupEnd = 0
    /\ unmatched = 0
    /\ nCount = [k \in CountKeys |-> 0]

RECURSIVE Sum(_, _)
Sum(f, S) ==
    IF S = {} THEN 0
    ELSE LET k == CHOOSE x \in S : TRUE IN f[k] + Sum(f, S \ {k})

\* history: number of count() calls so far
CountCalls == Sum(nCount, CountKeys)

\* bookkeeping of a call: what was called, the state it was called in, and
\* what it did
Called(name, args, out) ==
    /\ lastOp' = [name |-> name, args |-> args]
    /\ pre' = [groupLevel |-> groupLevel, counts |-> counts]
    /\ sink' = out.sink
    /\ raised' = out.raised

Log ==
    \E args \in ArgLists :
        /\ Called("log", args, log(groupLevel, args))
        /\ UNCHANGED <<groupLevel, counts, outWidth, formatBuffer,
                       nGroup, nGroupEnd, unmatched, nCount>>

Info ==
    \E args \in ArgLists :
        /\ Called("info", args, info(groupLevel, args))
        /\ UNCHANGED <<groupLevel, counts, outWidth, formatBuffer,
                       nGroup, nGroupEnd, unmatched, nCount>>

Warn ==
    \E args \in ArgLists :
        /\ Called("warn", args, warn(groupLevel, args))
        /\ UNCHANGED <<groupLevel, counts, outWidth, formatBuffer,
                       nGroup, nGroupEnd, unmatched, nCount>>

Error ==
    \E args \in ArgLists :
        /\ Called("error", args, error(groupLevel, args))
        /\ UNCHANGED <<groupLevel, counts, outWidth, formatBuffer,
                       nGroup, nGroupEnd, unmatched, nCount>>

Exception ==
    \E args \in ArgLists :
        /\ Called("exception", args, exception(groupLevel, args))
        /\ UNCHANGED <<groupLevel, counts, outWidth, formatBuffer,
                       nGroup, nGroupEnd, unmatched, nCount>>

AssertCall ==
    \E assertion \in Assertions, args \in ArgLists :
        /\ Called("assert", <<assertion, args>>,
                  assert(groupLevel, assertion, args))
        /\ UNCHANGED <<groupLevel, counts, outWidth, formatBuffer,
                       nGroup, nGroupEnd, unmatched, nCount>>

Clear ==
    /\ Called("clear", <<>>, Nothing)
    /\ UNCHANGED <<groupLevel, counts, outWidth, formatBuffer,
                   nGroup, nGroupEnd, unmatched, nCount>>

GetBuffer ==
    /\ Called("getBuffer", <<>>, Nothing)
    /\ UNCHANGED <<groupLevel, counts, outWidth, formatBuffer,
                   nGroup, nGroupEnd, unmatched, nCount>>

Count ==
    \E label \in CountLabels :
        LET r == count(groupLevel, counts, label)
        IN /\ CountCalls < MaxCount
           /\ counts' = r.counts
           /\ Called("count", <<label>>, r.out)
           /\ nCount' = [nCount EXCEPT ![CountLabel(label)] = @ + 1]
           /\ UNCHANGED <<groupLevel, outWidth, formatBuffer,
                          nGroup, nGroupEnd, unmatched>>

Group ==
    \E label \in GroupLabels :
        LET r == group(groupLevel, label)
        IN /\ nGroup < MaxGroupCalls
           /\ groupLevel' = r.level
           /\ Called("group", <<label>>, r.out)
           /\ nGroup' = nGroup + 1
           /\ unmatched' = unmatched + 1
           /\ UNCHANGED <<counts, outWidth, formatBuffer, nGroupEnd, nCount>>

GroupCollapsed ==
    \E label \in GroupLabels :
        LET r == groupCollapsed(groupLevel, label)
        IN /\ nGroup < MaxGroupCalls
           /\ groupLevel' = r.level
           /\ Called("groupCollapsed", <<label>>, r.out)
           /\ nGroup' = nGroup + 1
           /\ unmatched' = unmatched + 1
           /\ UNCHANGED <<counts, outWidth, formatBuffer, nGroupEnd, nCount>>

GroupEnd ==
    /\ nGroupEnd < MaxGroupCalls
    /\ groupLevel' = groupEnd(groupLevel)
    /\ Called("groupEnd", <<>>, Nothing)
    /\ nGroupEnd' = nGroupEnd + 1
    /\ unmatched' = IF unmatched > 0 THEN unmatched - 1 ELSE 0
    /\ UNCHANGED <<counts, outWidth, formatBuffer, nGroup, nCount>>

Table ==
    \E data \in TableData :
        /\ Called("table", <<data>>, table(groupLevel, outWidth, data))
        /\ UNCHANGED <<groupLevel, counts, outWidth, formatBuffer,
                       nGroup, nGroupEnd, unmatched, nCount>>

Next ==
    \/ Log
    \/ Info
    \/ Warn
    \/ Error
    \/ Exception
    \/ AssertCall
    \/ Clear
    \/ GetBuffer
    \/ Count
    \/ Group
    \/ GroupCollapsed
    \/ GroupEnd
    \/ Table

Spec == Init /\ [][Next]_vars

---------------------------------------------------------------------------
(* Properties *)

\* the lines among the stream calls s
Writes(s) == SelectSeq(s, LAMBDA e : e.ev = "write")

\* the last call wrote exactly one line, of this level, indentation and message
WroteOneLine(type, indent, message) ==
    /\ raised = "none"
    /\ Len(Writes(sink)) = 1
    /\ Writes(sink)[1].type = type
    /\ Writes(sink)[1].indent = indent
    /\ Writes(sink)[1].message = message

\* the last call wrote nothing and raised nothing
WroteNothing == sink = <<>> /\ raised = "none"

\* the last call left groupLevel and counts as they were
StateUnchanged == groupLevel = pre.groupLevel /\ counts = pre.counts

\* C1: after any sequence of group()/groupCollapsed()/groupEnd() calls, a
\* log/info/warn/error call writes its line with the indentation "> " repeated
\* once per unmatched group() call, that is, once per group call minus
\* groupEnd call made so far.
C1_IndentationCountsUnmatchedGroups ==
    lastOp.name \in {"log", "info", "warn", "error"} =>
        /\ unmatched = nGroup - nGroupEnd
        /\ WroteOneLine(lastOp.name, repeat(Marker, unmatched),
                        format(lastOp.args))

\* C2: the k-th call of count(L) writes exactly one log-level line "L: k",
\* for every label L (the default label included) and whatever was called
\* in between; the counter of L then stands at k and no other counter moved.
C2_KthCountWritesK ==
    lastOp.name = "count" =>
        LET L == CountLabel(lastOp.args[1])
        IN /\ WroteOneLine("log", repeat(Marker, groupLevel),
                           L \o <<":", " ">> \o NumberToString(nCount[L]))
           /\ counts[L] = JSNumber(nCount[L])
           /\ \A k \in CountKeys \ {L} : counts[k] = pre.counts[k]

\* C3: assert with a falsy assertion writes exactly one log-level line, the
\* one log(...args) writes at the current indentation; with a truthy
\* assertion it writes nothing and leaves groupLevel and counts as they were.
C3_AssertLogsExactlyWhenFalsy ==
    lastOp.name = "assert" =>
        IF ~Truthy(lastOp.args[1])
        THEN /\ WroteOneLine("log", repeat(Marker, groupLevel),
                             format(lastOp.args[2]))
             /\ Outcome(sink, raised) = log(groupLevel, lastOp.args[2])
             /\ StateUnchanged
        ELSE WroteNothing /\ StateUnchanged

\* C4: groupLevel is never negative, whatever sequence of group(),
\* groupCollapsed() and groupEnd() calls was made.
C4_GroupLevelNonNegative == groupLevel >= 0

\* C5: every call of log, info, warn, error, exception, assert, count, group,
\* groupCollapsed, groupEnd, clear and getBuffer completes without raising an
\* error, after any sequence of calls.
C5_CallsNeverRaise == lastOp.name # "table" => raised = "none"

\* C6: groupCollapsed(label) leaves the same groupLevel and writes the same
\* output as group(label) called in the same state.
C6_GroupCollapsedIsGroup ==
    lastOp.name = "groupCollapsed" =>
        LET r == group(pre.groupLevel, lastOp.args[1])
        IN /\ groupLevel = r.level
           /\ Outcome(sink, raised) = r.out

\* C7: group(label) increments groupLevel by exactly 1; when a label was
\* supplied it then writes that label as exactly one log-level line at the new
\* level, and without a label it writes nothing.
C7_GroupLogsLabelAtNewLevel ==
    lastOp.name = "group" =>
        /\ groupLevel = pre.groupLevel + 1
        /\ IF lastOp.args[1] # JSUndefined
           THEN WroteOneLine("log", repeat(Marker, pre.groupLevel + 1),
                             lastOp.args[1].s)
           ELSE WroteNothing

\* C8: groupEnd() decrements groupLevel by exactly 1 and writes nothing; a
\* groupEnd() that directly follows group("g") puts groupLevel back to what it
\* was before the group("g"), so that a line logged next is written as it
\* would have been before the two calls.
C8_GroupEndUndoesGroup ==
    [][ /\ lastOp'.name = "groupEnd" =>
            /\ groupLevel' = groupLevel - 1
            /\ sink' = <<>>
            /\ raised' = "none"
            /\ counts' = counts
        /\ (/\ lastOp.name = "group"
            /\ lastOp.args = <<JSString(<<"g">>)>>
            /\ lastOp'.name = "groupEnd") =>
               /\ groupLevel' = pre.groupLevel
               /\ \A args \in ArgLists :
                      log(groupLevel', args) = log(pre.groupLevel, args)
      ]_vars

\* a groupEnd() has just closed the only group("g") opened so far
C8_Witness ==
    /\ lastOp.name = "groupEnd"
    /\ nGroup = 1
    /\ nGroupEnd = 1
    /\ unmatched = 0
    /\ groupLevel = 0
    /\ pre.groupLevel = 1

\* C9: table(data) with data that is not an object (undefined, null, a string,
\* a number) writes nothing, raises nothing, and leaves groupLevel and counts
\* as they were.
C9_TableIgnoresNonObjects ==
    (lastOp.name = "table" /\ lastOp.args[1].t \notin {"array", "object"}) =>
        WroteNothing /\ StateUnchanged

\* table(null) was called below level 0, where any written line would raise
C9_Witness ==
    /\ lastOp.name = "table"
    /\ lastOp.args[1] = JSNull
    /\ groupLevel < 0

\* the text consists of the character ch only
AllOf(text, ch) == \A i \in 1..Len(text) : text[i] = ch

\* C10: table(data) for a collection with n own keys writes exactly n+4
\* log-level lines: top border, header row, separator row, one row per key in
\* enumeration order, bottom border; for an empty collection these are 4
\* lines with the header "| (index) | Value |" and borders of length 19.
C10_TableWritesNPlus4Lines ==
    (lastOp.name = "table" /\ lastOp.args[1].t \in {"array", "object"}) =>
        LET data == lastOp.args[1]
            n == Len(data.e)
            keys == ObjectKeys(data)
            lines == Writes(sink)
        IN /\ raised = "none"
           /\ Len(lines) = n + 4
           /\ \A i \in 1..Len(lines) : lines[i].type = "log"
           /\ AllOf(lines[1].message, "_")
           /\ SubSeq(lines[2].message, 1, 3) = <<"|", " ", "(">>
           /\ SubSeq(lines[3].message, 1, 2) = <<"|", "-">>
           /\ \A i \in 1..n :
                  SubSeq(lines[3 + i].message, 1, 3)
                      = <<"|", " ", keys[i][1]>>
           /\ AllOf(lines[n + 4].message, "OVERLINE")
           /\ n = 0 =>
                  /\ lines[2].message
                         = <<"|", " ">> \o IndexHeader \o <<" ", "|", " ">>
                           \o ValueHeader \o <<" ", "|">>
                  /\ Len(lines[1].message) = 19
                  /\ Len(lines[4].message) = 19

---------------------------------------------------------------------------
(* Properties of the table layout *)

\* the last call was table() on a collection all of whose values have a text
TableOfCollection ==
    /\ lastOp.name = "table"
    /\ lastOp.args[1].t \in {"array", "object"}
    /\ \A i \in 1..Len(ObjectValues(lastOp.args[1])) :
           ~stringifyThrows(ObjectValues(lastOp.args[1])[i])

\* the widths the last table() call started from and those it rendered with
NaturalWidths ==
    [key |-> KeyWidth(lastOp.args[1]), value |-> ValueWidth(lastOp.args[1])]
RenderedWidths == Fit(NaturalWidths, outWidth)

\* the greatest element of a finite set of integers
Greatest(S) == CHOOSE m \in S : \A x \in S : x <= m

\* C11: for every positive outputWidth and every collection, the widths the
\* table is rendered with are not negative: keyWidth >= 0 and valueWidth >= 0.
C11_ColumnWidthsNonNegative ==
    TableOfCollection =>
        RenderedWidths.key >= 0 /\ RenderedWidths.value >= 0

\* C12: for every positive outputWidth and every collection, the table is
\* rendered with totalWidth = keyWidth + valueWidth + 7 <= outputWidth (its
\* borders have that length), and the loop that shrinks the widths ends, after
\* one turn per column in excess.
C12_TableFitsOutputWidth ==
    TableOfCollection =>
        LET w == RenderedWidths
            total == w.key + w.value + 7
            natural == NaturalWidths.key + NaturalWidths.value + 7
            lines == Writes(sink)
        IN /\ total <= outWidth
           /\ Len(FitTrace(NaturalWidths, outWidth)) - 1
                  = MathMax(0, natural - outWidth)
           /\ Len(lines) >= 1 =>
                  Len(lines[1].message) = total /\ AllOf(lines[1].message, "_")
           /\ (raised = "none" /\ Len(lines) >= 1) =>
                  /\ Len(lines[Len(lines)].message) = total
                  /\ AllOf(lines[Len(lines)].message, "OVERLINE")

\* a table that had to be shrunk to a narrow window has been written in full
C12_Witness ==
    /\ TableOfCollection
    /\ Len(lastOp.args[1].e) = 2
    /\ outWidth = 15
    /\ NaturalWidths.key + NaturalWidths.value + 7 > outWidth
    /\ raised = "none"
    /\ Len(Writes(sink)) = 6

\* C13: when the natural width fits (max(7, longest raw key) + max(5, longest
\* stringified value) + 7 <= outputWidth), keyWidth is max(7, longest raw key
\* length) and valueWidth is max(5, longest stringified value length): each
\* row holds its whole key and its whole stringified value, each followed by
\* spaces up to the column width.
C13_NaturalWidthsWhenTableFits ==
    TableOfCollection =>
        LET data == lastOp.args[1]
            keys == ObjectKeys(data)
            values == ObjectValues(data)
            n == Len(keys)
            keyWidth == Greatest({7} \cup {Len(keys[i]) : i \in 1..n})
            valueWidth ==
                Greatest({5} \cup {Len(stringify(values[i])) : i \in 1..n})
            lines == Writes(sink)
        IN keyWidth + valueWidth + 7 <= outWidth =>
               /\ RenderedWidths = [key |-> keyWidth, value |-> valueWidth]
               /\ raised = "none" =>
                      \A i \in 1..n :
                          lines[3 + i].message
                              = <<"|", " ">> \o keys[i]
                                \o repeat(<<" ">>, keyWidth - Len(keys[i]))
                                \o <<" ", "|", " ">> \o stringify(values[i])
                                \o repeat(<<" ">>,
                                          valueWidth - Len(stringify(values[i])))
                                \o <<" ", "|">>

\* an object with a key longer than "(index)" has been written in a window
\* wide enough for it
C13_Witness ==
    /\ TableOfCollection
    /\ lastOp.args[1].t = "object"
    /\ \E i \in 1..Len(lastOp.args[1].e) : Len(lastOp.args[1].e[i][1]) > 7
    /\ NaturalWidths.key + NaturalWidths.value + 7 <= outWidth
    /\ raised = "none"
    /\ Len(Writes(sink)) = Len(lastOp.args[1].e) + 4

---------------------------------------------------------------------------
(* Properties of the methods, continued *)

\* C14: exception(...args) does what error(...args) does in the same state:
\* the same single error-level line, the same error raised if any, and
\* groupLevel and counts left as they were.
C14_ExceptionIsError ==
    lastOp.name = "exception" =>
        /\ Outcome(sink, raised) = error(pre.groupLevel, lastOp.args)
        /\ Len(Writes(sink)) <= 1
        /\ \A i \in 1..Len(Writes(sink)) : Writes(sink)[i].type = "error"
        /\ StateUnchanged

\* exception() has written a line inside a group
C14_Witness ==
    /\ lastOp.name = "exception"
    /\ lastOp.args # <<>>
    /\ groupLevel > 0
    /\ raised = "none"
    /\ Len(Writes(sink)) = 1

\* C15: log, info, warn, error, exception, assert, table, clear and getBuffer
\* leave groupLevel and counts as they were; count(L) changes the counter of L
\* only, and not groupLevel; group, groupCollapsed and groupEnd do not change
\* counts; no call removes a counter or lowers one.
C15_StateChangedOnlyByOwnMethods ==
    /\ lastOp.name \in {"log", "info", "warn", "error", "exception", "assert",
                        "table", "clear", "getBuffer"} => StateUnchanged
    /\ lastOp.name = "count" =>
           /\ groupLevel = pre.groupLevel
           /\ \A k \in CountKeys \ {CountLabel(lastOp.args[1])} :
                  counts[k] = pre.counts[k]
    /\ lastOp.name \in {"group", "groupCollapsed", "groupEnd"} =>
           counts = pre.counts
    /\ \A k \in CountKeys :
           /\ pre.counts[k] # Absent => counts[k] # Absent
           /\ pre.counts[k].t = "number" =>
                  counts[k].t = "number" /\ counts[k].n >= pre.counts[k].n

\* count(L) was called inside a group while another label had a counter
C15_Witness ==
    /\ lastOp.name = "count"
    /\ groupLevel > 0
    /\ \E k \in CountKeys \ {CountLabel(lastOp.args[1])} : counts[k] # Absent
    /\ counts[CountLabel(lastOp.args[1])] # pre.counts[CountLabel(lastOp.args[1])]

---------------------------------------------------------------------------
(* Properties of the table layout, continued *)

\* both widths have reached 0
BottomedOut(w) == w.key <= 0 /\ w.value <= 0

\* C16: while totalWidth exceeds outputWidth, each turn of the shrinking loop
\* decrements exactly one width by exactly 1, valueWidth when it is greater
\* than keyWidth and keyWidth otherwise; the loop stops as soon as the table
\* fits or both widths have bottomed out.
C16_ShrinkTurnsAndStop ==
    TableOfCollection =>
        LET t == FitTrace(NaturalWidths, outWidth)
        IN /\ \A i \in 1..(Len(t) - 1) :
                  /\ t[i].key + t[i].value + 7 > outWidth
                  /\ ~BottomedOut(t[i])
                  /\ IF t[i].value > t[i].key
                     THEN t[i + 1] = [key |-> t[i].key,
                                      value |-> t[i].value - 1]
                     ELSE t[i + 1] = [key |-> t[i].key - 1,
                                      value |-> t[i].value]
           /\ \/ t[Len(t)].key + t[Len(t)].value + 7 <= outWidth
              \/ BottomedOut(t[Len(t)])
           /\ t[Len(t)] = RenderedWidths

\* C17: every key and value cell of a table has exactly the width of its
\* column (cut to it or padded with spaces), so every line one table() call
\* writes has the length totalWidth = keyWidth + valueWidth + 7.
C17_CellsAndLinesHaveColumnWidth ==
    TableOfCollection =>
        LET data == lastOp.args[1]
            w == RenderedWidths
            lines == Writes(sink)
        IN /\ Len(pad(IndexHeader, w.key)) = w.key
           /\ Len(pad(ValueHeader, w.value)) = w.value
           /\ \A i \in 1..Len(data.e) :
                  /\ Len(pad(ObjectKeys(data)[i], w.key)) = w.key
                  /\ Len(pad(stringify(ObjectValues(data)[i]), w.value))
                         = w.value
           /\ \A i \in 1..Len(lines) :
                  Len(lines[i].message) = w.key + w.value + 7

---------------------------------------------------------------------------
(* Properties of the path to the stream *)

\* the level each method logs at
LevelOf(name) ==
    CASE name = "info" -> "info"
      [] name = "warn" -> "warn"
      [] name \in {"error", "exception"} -> "error"
      [] OTHER -> "log"

\* the calls made on the stream among the calls s
StreamCalls(s) == SelectSeq(s, LAMBDA e : e.ev \in {"clearLine", "write"})

\* C18: every line written went through the formatter with the level of the
\* method that produced it ('log' for log, assert, count, group labels and
\* table lines, 'info' for info, 'warn' for warn, 'error' for error and
\* exception), and every call of the formatter is followed by exactly one
\* write, of its result.
C18_LinesFormattedAtLevelOfMethod ==
    \A i \in 1..Len(sink) :
        /\ sink[i].ev = "write" =>
               /\ i > 1
               /\ sink[i - 1].ev = "format"
               /\ sink[i - 1].type = LevelOf(lastOp.name)
               /\ sink[i].type = sink[i - 1].type
               /\ sink[i].message = sink[i - 1].message
               /\ sink[i].text
                      = sink[i].indent
                        \o _formatBuffer(LevelOf(lastOp.name), sink[i].message)
        /\ sink[i].ev = "format" =>
               /\ i < Len(sink)
               /\ sink[i + 1].ev = "write"

\* warn() has written a line inside a group through the caller's formatter
C18_Witness ==
    /\ lastOp.name = "warn"
    /\ formatBuffer = "typeChar"
    /\ groupLevel > 0
    /\ Len(Writes(sink)) = 1
    /\ Writes(sink)[1].type = "warn"

\* C19: a line is written as formatter(level, indentation + message): the
\* message is prefixed with the indentation first and the result is passed
\* through the formatter.
C19_IndentationBeforeFormatter ==
    \A i \in 1..Len(Writes(sink)) :
        Writes(sink)[i].text
            = _formatBuffer(Writes(sink)[i].type,
                            Writes(sink)[i].indent \o Writes(sink)[i].message)

\* C20: every write on the stream is immediately preceded by a clearLine on
\* it, and every clearLine is immediately followed by a write: the stream
\* calls of a method are clearLine, write, clearLine, write, ...
C20_ClearLineBeforeEveryWrite ==
    LET calls == StreamCalls(sink)
    IN /\ Len(calls) % 2 = 0
       /\ \A i \in 1..Len(calls) :
              calls[i].ev = (IF i % 2 = 1 THEN "clearLine" ELSE "write")

====
